---- MODULE Spec2Model ----
(***************************************************************************)
(* Student record store: a linked list of student dicts (LinkedList), a    *)
(* bounded operation history (Stack) and the StudentManager operations     *)
(* that mutate the list and log an undo entry for every change.            *)
(*                                                                         *)
(* A student dict is a record [roll_no, name]; `name' stands for the keys  *)
(* other than roll_no (name, email, courses, grades), which the manager    *)
(* only ever copies or replaces together with the whole dict.  The linked  *)
(* list is the sequence of its node data from head to tail, kept next to   *)
(* the separate `size' counter the class maintains.  The 'timestamp' key   *)
(* of a history entry, the StudentDataProcessor log and the JSON data file *)
(* are written but never read by the operations below and are not part of  *)
(* the state.                                                              *)
(*                                                                         *)
(* Dicts are Python objects: LinkedList.to_list returns the very dicts the *)
(* nodes hold.  The model keeps the values in `nodes' and, next to them in *)
(* `snap', which element of the list last returned by get_all_students is  *)
(* the same object as each node's dict (0: none); `snapshot' is that list  *)
(* as its holder sees it.                                                  *)
(***************************************************************************)
EXTENDS Integers, Sequences, FiniteSets, TLC

\* ---------------------------------------------------------------- bounds
\* The capacity of operation_history is Stack(100) in the source; the model
\* scales it down so that the history overflows within the bounds.
MaxStudents == 2        \* longest list Spec lets the store grow to
HistCap == 1            \* capacity of operation_history in Spec
MaxInserts == 4         \* longest list SpecInserts lets the store grow to
InsertHistCap == 2      \* capacity of operation_history in SpecInserts
MaxLimit == 2           \* largest limit passed to get_operation_history
ReadHistCap == 3        \* capacity of operation_history in SpecHistory
ReadMaxLimit == 4       \* largest limit asked for in SpecHistory
QueryMaxStudents == 2   \* longest list of the stores SpecQuery starts from
ClauseMaxStudents == 2  \* longest list of the stores SpecClauses starts from
ReportMaxStudents == 1  \* longest list of the stores SpecReports starts from
MaxListLen == 3          \* nodes of the list driven through its own methods
UndoMaxStudents == 2     \* records in the store while mutations are undone
UndoHistCap == 2         \* max_size of the history while mutations are undone

Rolls == {"r1", "r2"}
Names == {"n1", "n2"}
InsertRolls == {"r1", "r2", "r3", "r4", "r5"}

\* A student dict and the inputs the callers pass
StudentData == [roll_no : Rolls, name : Names]
InsertData == [roll_no : InsertRolls, name : {"n1"}]

\* Python's None, as returned by LinkedList.find and Stack.pop
None == [none |-> TRUE]

\* students          : StudentManager.students, the LinkedList
\* operation_history : StudentManager.operation_history, the Stack
\* last              : the most recent call: its name, arguments and return value
\* before            : the list as it was when the most recent call started
\* snapshot          : the list last returned by get_all_students, in its caller's hands
\* request           : the query form posted to the query route and not yet
\*                     handled, None when there is none
VARIABLES students, operation_history, last, before, snapshot, request

vars == <<students, operation_history, last, before, snapshot, request>>

\* ------------------------------------------------------------ LinkedList
LinkedList_init == [nodes |-> <<>>, size |-> 0, snap |-> <<>>]

\* the dict appended is a new object for the holder of a snapshot: callers
\* build it from form fields or the manager copied it into a history entry
LinkedList_append(list, data) ==
    [nodes |-> Append(list.nodes, data), size |-> list.size + 1,
     snap |-> Append(list.snap, 0)]

\* LinkedList.prepend without the `self.size += 1' line
LinkedList_prepend_keepsize(list, data) ==
    [nodes |-> <<data>> \o list.nodes, size |-> list.size,
     snap |-> <<0>> \o list.snap]

\* new_node.next = self.head; self.head = new_node
LinkedList_prepend(list, data) ==
    [nodes |-> <<data>> \o list.nodes, size |-> list.size + 1,
     snap |-> <<0>> \o list.snap]

\* index of the first node whose data has this roll_no, 0 when there is none
RECURSIVE FirstIndex(_, _, _)
FirstIndex(nodes, roll_no, i) ==
    IF i > Len(nodes) THEN 0
    ELSE IF nodes[i].roll_no = roll_no THEN i
    ELSE FirstIndex(nodes, roll_no, i + 1)

RemoveAt(nodes, i) == SubSeq(nodes, 1, i - 1) \o SubSeq(nodes, i + 1, Len(nodes))

\* LinkedList.delete without the `self.size -= 1' lines
LinkedList_delete_keepsize(list, roll_no) ==
    LET i == FirstIndex(list.nodes, roll_no, 1) IN
    IF i = 0 THEN [list |-> list, ok |-> FALSE]
    ELSE [list |-> [nodes |-> RemoveAt(list.nodes, i), size |-> list.size,
                    snap |-> RemoveAt(list.snap, i)], ok |-> TRUE]

LinkedList_delete(list, roll_no) ==
    LET i == FirstIndex(list.nodes, roll_no, 1) IN
    IF i = 0 THEN [list |-> list, ok |-> FALSE]
    ELSE [list |-> [nodes |-> RemoveAt(list.nodes, i), size |-> list.size - 1,
                    snap |-> RemoveAt(list.snap, i)],
          ok |-> TRUE]

LinkedList_find(list, roll_no) ==
    LET i == FirstIndex(list.nodes, roll_no, 1) IN
    IF i = 0 THEN None ELSE list.nodes[i]

\* LinkedList.update writing the new values into the dict the node holds
\* (current.data.update(new_data)) instead of replacing the dict
LinkedList_update_inplace(list, roll_no, new_data) ==
    LET i == FirstIndex(list.nodes, roll_no, 1) IN
    IF i = 0 THEN [list |-> list, ok |-> FALSE]
    ELSE [list |-> [list EXCEPT !.nodes[i] = new_data], ok |-> TRUE]

\* current.data = new_data: the node holds another dict from now on
LinkedList_update(list, roll_no, new_data) ==
    LET i == FirstIndex(list.nodes, roll_no, 1) IN
    IF i = 0 THEN [list |-> list, ok |-> FALSE]
    ELSE [list |-> [list EXCEPT !.nodes[i] = new_data, !.snap[i] = 0], ok |-> TRUE]

LinkedList_to_list(list) == list.nodes

LinkedList_get_length(list) == list.size

LinkedList_is_empty(list) == list.nodes = <<>>

\* ----------------------------------------------------------------- Stack
\* items[1] is the bottom (oldest), items[Len] the top (most recent)
Stack_init(max_size) == [items |-> <<>>, max_size |-> max_size]

Stack_is_empty(stack) == Len(stack.items) = 0

\* Stack.push evicting with items.pop() instead of items.pop(0)
Stack_push_droptop(stack, item) ==
    IF Len(stack.items) >= stack.max_size
    THEN [stack EXCEPT !.items = Append(SubSeq(stack.items, 1, Len(stack.items) - 1), item)]
    ELSE [stack EXCEPT !.items = Append(stack.items, item)]

Stack_push(stack, item) ==
    IF Len(stack.items) >= stack.max_size
    THEN [stack EXCEPT !.items = Append(Tail(stack.items), item)]
    ELSE [stack EXCEPT !.items = Append(stack.items, item)]

Stack_pop(stack) ==
    IF Stack_is_empty(stack) THEN [stack |-> stack, item |-> None]
    ELSE [stack |-> [stack EXCEPT !.items = SubSeq(stack.items, 1, Len(stack.items) - 1)],
          item |-> stack.items[Len(stack.items)]]

\* ------------------------------------------------------- history entries
AddEntry(student_data) == [action |-> "add", data |-> student_data]

UpdateEntry(roll_no, old_data, new_data) ==
    [action |-> "update", roll_no |-> roll_no, old_data |-> old_data, new_data |-> new_data]

DeleteEntry(student_data) == [action |-> "delete", data |-> student_data]

\* ---------------------------------------------------------------- state
Init ==
    /\ students = LinkedList_init
    /\ operation_history = Stack_init(HistCap)
    /\ last = [op |-> "init", ret |-> None]
    /\ before = LinkedList_init
    /\ snapshot = <<>>
    /\ request = None

\* ------------------------------------------------------------ operations
\* add_student without the duplicate check of its first two lines
add_student_nocheck(student_data) ==
    /\ before' = students
    /\ operation_history' = Stack_push(operation_history, AddEntry(student_data))
    /\ students' = LinkedList_append(students, student_data)
    /\ last' = [op |-> "add_student", roll_no |-> student_data.roll_no,
                data |-> student_data, ret |-> TRUE]

add_student(student_data) ==
    /\ before' = students
    /\ IF LinkedList_find(students, student_data.roll_no) # None
       THEN /\ UNCHANGED <<students, operation_history>>
            /\ last' = [op |-> "add_student", roll_no |-> student_data.roll_no,
                        data |-> student_data, ret |-> FALSE]
       ELSE /\ operation_history' = Stack_push(operation_history, AddEntry(student_data))
            /\ students' = LinkedList_append(students, student_data)
            /\ last' = [op |-> "add_student", roll_no |-> student_data.roll_no,
                        data |-> student_data, ret |-> TRUE]

get_student(roll_no) ==
    /\ before' = students
    /\ UNCHANGED <<students, operation_history>>
    /\ last' = [op |-> "get_student", roll_no |-> roll_no,
                ret |-> LinkedList_find(students, roll_no)]

\* The list is new, its elements are the dicts of the nodes
get_all_students ==
    /\ before' = students
    /\ UNCHANGED operation_history
    /\ students' = [students EXCEPT !.snap = [j \in 1..Len(students.nodes) |-> j]]
    /\ snapshot' = LinkedList_to_list(students)
    /\ last' = [op |-> "get_all_students", ret |-> LinkedList_to_list(students)]

\* update_student logging the operation before it looks the student up
update_student_logfirst(roll_no, new_data) ==
    LET old_data == LinkedList_find(students, roll_no)
        updated == LinkedList_update(students, roll_no, new_data)
    IN
    /\ before' = students
    /\ operation_history' =
           Stack_push(operation_history, UpdateEntry(roll_no, old_data, new_data))
    /\ students' = updated.list
    /\ last' = [op |-> "update_student", roll_no |-> roll_no,
                data |-> new_data, ret |-> updated.ok]

update_student(roll_no, new_data) ==
    LET old_data == LinkedList_find(students, roll_no)
        updated == LinkedList_update(students, roll_no, new_data)
    IN
    /\ before' = students
    /\ IF old_data = None
       THEN /\ UNCHANGED <<students, operation_history>>
            /\ last' = [op |-> "update_student", roll_no |-> roll_no,
                        data |-> new_data, ret |-> FALSE]
       ELSE /\ operation_history' =
                   Stack_push(operation_history, UpdateEntry(roll_no, old_data, new_data))
            /\ students' = updated.list
            /\ last' = [op |-> "update_student", roll_no |-> roll_no,
                        data |-> new_data, ret |-> updated.ok]

delete_student(roll_no) ==
    LET student_data == LinkedList_find(students, roll_no)
        deleted == LinkedList_delete(students, roll_no)
    IN
    /\ before' = students
    /\ IF student_data = None
       THEN /\ UNCHANGED <<students, operation_history>>
            /\ last' = [op |-> "delete_student", roll_no |-> roll_no, ret |-> FALSE]
       ELSE /\ operation_history' = Stack_push(operation_history, DeleteEntry(student_data))
            /\ students' = deleted.list
            /\ last' = [op |-> "delete_student", roll_no |-> roll_no, ret |-> deleted.ok]

\* first loop of get_operation_history: pop up to `limit' entries into
\* `history', pushing each onto temp_stack
RECURSIVE PopLoop(_, _, _, _, _)
PopLoop(stack, temp_stack, history, count, limit) ==
    IF ~Stack_is_empty(stack) /\ count < limit
    THEN LET popped == Stack_pop(stack) IN
         PopLoop(popped.stack, Stack_push(temp_stack, popped.item),
                 Append(history, popped.item), count + 1, limit)
    ELSE [stack |-> stack, temp_stack |-> temp_stack, history |-> history]

\* second loop of get_operation_history: push temp_stack back
RECURSIVE RestoreLoop(_, _)
RestoreLoop(stack, temp_stack) ==
    IF ~Stack_is_empty(temp_stack)
    THEN LET popped == Stack_pop(temp_stack) IN
         RestoreLoop(Stack_push(stack, popped.item), popped.stack)
    ELSE stack

\* get_operation_history without its second loop
HistoryRead_norestore(stack, limit) ==
    LET read == PopLoop(stack, Stack_init(stack.max_size), <<>>, 0, limit) IN
    [stack |-> read.stack, history |-> read.history]

\* temp_stack = Stack() has the default max_size=100, the number the manager's
\* own Stack(100) is built with, and is scaled down with it
HistoryRead(stack, limit) ==
    LET read == PopLoop(stack, Stack_init(stack.max_size), <<>>, 0, limit) IN
    [stack |-> RestoreLoop(read.stack, read.temp_stack), history |-> read.history]

get_operation_history(limit) ==
    LET read == HistoryRead(operation_history, limit) IN
    /\ before' = students
    /\ UNCHANGED students
    /\ operation_history' = read.stack
    /\ last' = [op |-> "get_operation_history", limit |-> limit, ret |-> read.history]

UndoMessage(action) == "Successfully undid " \o action \o " operation"

\* the store after the inverse of a popped entry has been applied; the
\* results of LinkedList.delete and LinkedList.update are not looked at
UndoApply(list, last_operation) ==
    IF last_operation.action = "add"
    THEN LinkedList_delete(list, last_operation.data.roll_no).list
    ELSE IF last_operation.action = "delete"
    THEN LinkedList_append(list, last_operation.data)
    ELSE LinkedList_update(list, last_operation.roll_no, last_operation.old_data).list

\* No statement of the try block raises for an entry the manager pushed
\* (LinkedList.delete and LinkedList.update return False, save_data catches
\* its own errors), so the except branch that pushes the entry back is
\* never taken.
undo_last_operation ==
    /\ before' = students
    /\ IF Stack_is_empty(operation_history)
       THEN /\ UNCHANGED <<students, operation_history>>
            /\ last' = [op |-> "undo_last_operation",
                        ret |-> <<FALSE, "No operations to undo">>]
       ELSE LET popped == Stack_pop(operation_history)
                last_operation == popped.item
            IN
            /\ operation_history' = popped.stack
            /\ students' = UndoApply(students, last_operation)
            /\ last' = [op |-> "undo_last_operation",
                        ret |-> <<TRUE, UndoMessage(last_operation.action)>>]

\* The store has room for one more node (the model's bound on its length)
Room(max) == Len(students.nodes) < max

\* The next call would append a node: an add of an absent roll number, or
\* the undo of a delete
AddAppends(student_data) == LinkedList_find(students, student_data.roll_no) = None

UndoAppends ==
    /\ ~Stack_is_empty(operation_history)
    /\ Stack_pop(operation_history).item.action = "delete"

\* What the holder of the snapshot sees after a call of the manager: the
\* list itself is not touched, an element that a node still holds shows the
\* node's values, an element no node holds any more keeps its values
Observe ==
    snapshot' = [k \in 1..Len(snapshot) |->
                    IF \E j \in 1..Len(students'.snap) : students'.snap[j] = k
                    THEN students'.nodes[CHOOSE j \in 1..Len(students'.snap) :
                                             students'.snap[j] = k]
                    ELSE snapshot[k]]

Next ==
    \/ \E student_data \in StudentData :
          /\ AddAppends(student_data) => Room(MaxStudents)
          /\ add_student(student_data)
          /\ Observe /\ UNCHANGED request
    \/ \E roll_no \in Rolls : get_student(roll_no) /\ Observe /\ UNCHANGED request
    \/ \E roll_no \in Rolls, new_data \in StudentData :
          update_student(roll_no, new_data) /\ Observe /\ UNCHANGED request
    \/ \E roll_no \in Rolls : delete_student(roll_no) /\ Observe /\ UNCHANGED request
    \/ /\ UndoAppends => Room(MaxStudents)
       /\ undo_last_operation
       /\ Observe /\ UNCHANGED request
    \/ \E limit \in 0..MaxLimit :
          get_operation_history(limit) /\ Observe /\ UNCHANGED request

Spec == Init /\ [][Next]_vars

\* Inserts only, with enough distinct roll numbers to overflow the history
NextInserts ==
    \/ \E student_data \in InsertData :
          /\ AddAppends(student_data) => Room(MaxInserts)
          /\ add_student(student_data)
          /\ Observe /\ UNCHANGED request
    \/ \E limit \in 0..MaxLimit :
          get_operation_history(limit) /\ Observe /\ UNCHANGED request

InitInserts ==
    /\ students = LinkedList_init
    /\ operation_history = Stack_init(InsertHistCap)
    /\ last = [op |-> "init", ret |-> None]
    /\ before = LinkedList_init
    /\ snapshot = <<>>
    /\ request = None

SpecInserts == InitInserts /\ [][NextInserts]_vars

\* A manager whose history holds ReadHistCap entries, used on one roll
\* number so that histories of every mix of add, update and delete entries
\* build up, and read with limits below, at and above the history's length.
HistoryData == [roll_no : {"r1"}, name : Names]

NextHistory ==
    \/ \E student_data \in HistoryData :
          add_student(student_data) /\ Observe /\ UNCHANGED request
    \/ \E new_data \in HistoryData :
          update_student("r1", new_data) /\ Observe /\ UNCHANGED request
    \/ delete_student("r1") /\ Observe /\ UNCHANGED request
    \/ \E limit \in 0..ReadMaxLimit :
          get_operation_history(limit) /\ Observe /\ UNCHANGED request

InitHistory ==
    /\ students = LinkedList_init
    /\ operation_history = Stack_init(ReadHistCap)
    /\ last = [op |-> "init", ret |-> None]
    /\ before = LinkedList_init
    /\ snapshot = <<>>
    /\ request = None

SpecHistory == InitHistory /\ [][NextHistory]_vars

\* The holder of the list get_all_students returned writes a key of one of
\* its elements (snapshot[k]['name'] = name); the element is the dict of
\* the node that had it when to_list ran, while that node still holds it
snapshot_setitem(k, name) ==
    /\ before' = students
    /\ UNCHANGED operation_history
    /\ snapshot' = [snapshot EXCEPT ![k].name = name]
    /\ students' = [students EXCEPT !.nodes =
                       [j \in 1..Len(students.nodes) |->
                           IF students.snap[j] = k
                           THEN [students.nodes[j] EXCEPT !.name = name]
                           ELSE students.nodes[j]]]
    /\ last' = [op |-> "snapshot_setitem", k |-> k, name |-> name, ret |-> None]

\* The holder takes an element out of the list (del snapshot[k]); the list
\* is the one to_list built, no node refers to it
snapshot_delitem(k) ==
    /\ before' = students
    /\ UNCHANGED operation_history
    /\ snapshot' = RemoveAt(snapshot, k)
    /\ students' = [students EXCEPT !.snap =
                       [j \in 1..Len(students.snap) |->
                           IF students.snap[j] = k THEN 0
                           ELSE IF students.snap[j] > k THEN students.snap[j] - 1
                           ELSE students.snap[j]]]
    /\ last' = [op |-> "snapshot_delitem", k |-> k, ret |-> None]

\* The manager with a caller that keeps the list get_all_students returned
\* while the manager goes on being used, and that writes to the list.  The
\* manager is called as the routes call it: edit_student passes the roll
\* number of the record edited in the new data, so the store holds at most
\* one record per roll number.
NextSnapshot ==
    \/ \E student_data \in StudentData :
          add_student(student_data) /\ Observe /\ UNCHANGED request
    \/ \E roll_no \in Rolls, name \in Names :
          update_student(roll_no, [roll_no |-> roll_no, name |-> name])
          /\ Observe /\ UNCHANGED request
    \/ \E roll_no \in Rolls : delete_student(roll_no) /\ Observe /\ UNCHANGED request
    \/ undo_last_operation /\ Observe /\ UNCHANGED request
    \/ get_all_students /\ UNCHANGED request
    \/ \E k \in 1..Len(snapshot), name \in Names :
          snapshot_setitem(k, name) /\ UNCHANGED request
    \/ \E k \in 1..Len(snapshot) : snapshot_delitem(k) /\ UNCHANGED request

SpecSnapshot == Init /\ [][NextSnapshot]_vars

\* ------------------------------------------- mutations, then their undos
\* stores that load_data reads from a file save_data wrote: any records, one
\* per roll number
UndoStores ==
    UNION {{nodes \in [1..n -> StudentData] :
               \A i, j \in 1..n : i # j => nodes[i].roll_no # nodes[j].roll_no} :
           n \in 0..UndoMaxStudents}

\* A manager whose history is empty; snapshot is a copy of the records it
\* starts with, kept by the caller
InitUndo ==
    /\ \E nodes \in UndoStores :
          /\ students = [nodes |-> nodes, size |-> Len(nodes),
                         snap |-> [i \in 1..Len(nodes) |-> 0]]
          /\ snapshot = nodes
    /\ operation_history = Stack_init(UndoHistCap)
    /\ last = [op |-> "init", ret |-> None]
    /\ before = LinkedList_init
    /\ request = None

\* no call of undo_last_operation yet, and the history has room for one
\* more entry without evicting one
Mutating ==
    /\ last.op # "undo_last_operation"
    /\ Len(operation_history.items) < operation_history.max_size

\* Mutations first, then one undo for each entry of the history
NextUndo ==
    \/ \E student_data \in StudentData :
          /\ Mutating
          /\ AddAppends(student_data) => Room(UndoMaxStudents)
          /\ add_student(student_data)
          /\ Observe /\ UNCHANGED request
    \/ \E roll_no \in Rolls, new_data \in StudentData :
          /\ Mutating
          /\ update_student(roll_no, new_data)
          /\ Observe /\ UNCHANGED request
    \/ \E roll_no \in Rolls :
          /\ Mutating
          /\ delete_student(roll_no)
          /\ Observe /\ UNCHANGED request
    \/ /\ ~Stack_is_empty(operation_history)
       /\ undo_last_operation
       /\ Observe /\ UNCHANGED request

SpecUndo == InitUndo /\ [][NextUndo]_vars

\* ------------------------------------------------- the list on its own
\* The methods of LinkedList that change the list, called directly: the list
\* checks nothing, so one roll number can be in several nodes
append(data) ==
    /\ before' = students
    /\ students' = LinkedList_append(students, data)
    /\ last' = [op |-> "append", data |-> data, ret |-> None]
    /\ UNCHANGED <<operation_history, snapshot, request>>

prepend(data) ==
    /\ before' = students
    /\ students' = LinkedList_prepend(students, data)
    /\ last' = [op |-> "prepend", data |-> data, ret |-> None]
    /\ UNCHANGED <<operation_history, snapshot, request>>

delete(roll_no) ==
    /\ before' = students
    /\ students' = LinkedList_delete(students, roll_no).list
    /\ last' = [op |-> "delete", roll_no |-> roll_no,
                ret |-> LinkedList_delete(students, roll_no).ok]
    /\ UNCHANGED <<operation_history, snapshot, request>>

update(roll_no, new_data) ==
    /\ before' = students
    /\ students' = LinkedList_update(students, roll_no, new_data).list
    /\ last' = [op |-> "update", roll_no |-> roll_no, data |-> new_data,
                ret |-> LinkedList_update(students, roll_no, new_data).ok]
    /\ UNCHANGED <<operation_history, snapshot, request>>

NextList ==
    \/ \E data \in StudentData : Room(MaxListLen) /\ append(data)
    \/ \E data \in StudentData : Room(MaxListLen) /\ prepend(data)
    \/ \E roll_no \in Rolls : delete(roll_no)
    \/ \E roll_no \in Rolls, new_data \in StudentData : update(roll_no, new_data)

SpecList == Init /\ [][NextList]_vars

\* ---------------------------------------------------------- query engine
\* A text is the sequence of its words: strip() and the whitespace collapse
\* of _parse_query leave it as it is.  The words are those of Words below;
\* none holds a keyword or an operator of the engine inside a longer word,
\* but INSERT, which holds IN.  The values a query computes with are Python
\* strings, numbers and None: Str of a sequence of words (Str(<<>>) is the
\* empty string), Num of a number, and None.
Str(text) == [str |-> text]

Num(n) == [num |-> n]

IsStr(value) == "str" \in DOMAIN value

\* a float that is a whole number: the result of a true division
Float(n) == [num |-> n, float |-> TRUE]

IsNum(value) == "num" \in DOMAIN value

IsFloat(value) == "float" \in DOMAIN value

\* lower-case and upper-case spelling of the words that have letters
CasePairs ==
    {<<"select", "SELECT">>, <<"from", "FROM">>, <<"students", "STUDENTS">>,
     <<"where", "WHERE">>, <<"order", "ORDER">>, <<"group", "GROUP">>,
     <<"by", "BY">>, <<"limit", "LIMIT">>, <<"asc", "ASC">>, <<"desc", "DESC">>,
     <<"and", "AND">>, <<"or", "OR">>, <<"like", "LIKE">>, <<"in", "IN">>,
     <<"roll_no", "ROLL_NO">>, <<"name", "NAME">>, <<"age", "AGE">>,
     <<"avg_grade", "AVG_GRADE">>,
     <<"n1", "N1">>, <<"n2", "N2">>, <<"r1", "R1">>, <<"r2", "R2">>, <<"r3", "R3">>,
     <<"'n1'", "'N1'">>, <<"abc", "ABC">>, <<"show", "SHOW">>, <<"table", "TABLE">>,
     <<"insert", "INSERT">>, <<"update", "UPDATE">>, <<"delete", "DELETE">>,
     <<"drop", "DROP">>, <<"create", "CREATE">>, <<"sert", "SERT">>}

\* str.upper and str.lower on a word
upper(word) ==
    IF \E p \in CasePairs : p[1] = word
    THEN (CHOOSE p \in CasePairs : p[1] = word)[2] ELSE word

lower(word) ==
    IF \E p \in CasePairs : p[2] = word
    THEN (CHOOSE p \in CasePairs : p[2] = word)[1] ELSE word

Upper(text) == [i \in 1..Len(text) |-> upper(text[i])]

Lower(text) == [i \in 1..Len(text) |-> lower(text[i])]

\* str.strip("'\"") on a text: the quotes its first word starts with and
\* the quotes its last word ends with go
LStripQuotes(word) ==
    IF word = "'N1'" THEN "N1'" ELSE IF word = "'N1" THEN "N1" ELSE word

RStripQuotes(word) ==
    IF word = "'N1'" THEN "'N1" ELSE IF word = "N1'" THEN "N1" ELSE word

StripQuotes(text) ==
    [i \in 1..Len(text) |->
        IF i = 1 /\ i = Len(text) THEN RStripQuotes(LStripQuotes(text[i]))
        ELSE IF i = 1 THEN LStripQuotes(text[i])
        ELSE IF i = Len(text) THEN RStripQuotes(text[i])
        ELSE text[i]]

\* the digits a word starts with (the group of \d+), "" when it starts
\* with none, and int() of them
LeadingDigits(word) ==
    IF word \in {"0", "1", "2", "3", "4", "80"} THEN word
    ELSE ""

int(digits) ==
    CASE digits = "0" -> 0 [] digits = "1" -> 1 [] digits = "2" -> 2
      [] digits = "3" -> 3 [] digits = "4" -> 4 [] digits = "80" -> 80

\* pattern (a sequence of words) stands in text at position i
At(text, pattern, i) ==
    /\ i >= 1
    /\ i + Len(pattern) - 1 <= Len(text)
    /\ \A k \in 1..Len(pattern) : text[i + k - 1] = pattern[k]

Min(a, b) == IF a <= b THEN a ELSE b

MinOf(S) == CHOOSE i \in S : \A j \in S : i <= j

\* re.search(keyword\s+(.+?)(?:\s+end|...|$), query).group(1): the words
\* after the first keyword that has a word after it, up to the first of the
\* ends that stands after at least one word, or up to the end of the text;
\* None when the pattern matches nowhere
Clause(query, keyword, ends) ==
    LET starts == {i \in 1..Len(query) :
                      At(query, keyword, i) /\ i + Len(keyword) <= Len(query)} IN
    IF starts = {} THEN None
    ELSE LET first == MinOf(starts) + Len(keyword)
             stops == {j \in (first + 1)..Len(query) :
                          \E end \in ends : At(query, end, j)} IN
         Str(SubSeq(query, first,
                    IF stops = {} THEN Len(query) ELSE MinOf(stops) - 1))

\* re.search(r'LIMIT\s+(\d+)', query).group(1)
LimitClause(query) ==
    LET starts == {i \in 1..(Len(query) - 1) :
                      query[i] = "LIMIT" /\ LeadingDigits(query[i + 1]) # ""} IN
    IF starts = {} THEN None ELSE Str(<<LeadingDigits(query[MinOf(starts) + 1])>>)

\* _parse_query taking a text without SELECT for SELECT *
parse_query_selectall(query) ==
    LET select_match == Clause(query, <<"SELECT">>, {<<"FROM">>}) IN
    [ok |-> TRUE,
     parsed |->
       [SELECT |-> IF select_match = None THEN Str(<<"*">>) ELSE select_match,
        WHERE |-> Clause(query, <<"WHERE">>,
                         {<<"ORDER", "BY">>, <<"GROUP", "BY">>, <<"LIMIT">>}),
        ORDER_BY |-> Clause(query, <<"ORDER", "BY">>, {<<"LIMIT">>}),
        GROUP_BY |-> Clause(query, <<"GROUP", "BY">>,
                            {<<"ORDER", "BY">>, <<"LIMIT">>}),
        LIMIT |-> LimitClause(query)]]

\* A dict is a record; parsed leaves out no key: a clause that is not in
\* the query has the value None
parse_query(query) ==
    LET select_match == Clause(query, <<"SELECT">>, {<<"FROM">>}) IN
    IF select_match = None
    THEN [ok |-> FALSE, error |-> "Invalid query: Missing SELECT clause"]
    ELSE [ok |-> TRUE,
          parsed |->
            [SELECT |-> select_match,
             WHERE |-> Clause(query, <<"WHERE">>,
                              {<<"ORDER", "BY">>, <<"GROUP", "BY">>, <<"LIMIT">>}),
             ORDER_BY |-> Clause(query, <<"ORDER", "BY">>, {<<"LIMIT">>}),
             GROUP_BY |-> Clause(query, <<"GROUP", "BY">>,
                                 {<<"ORDER", "BY">>, <<"LIMIT">>}),
             LIMIT |-> LimitClause(query)]]

\* the words in the order Python compares strings (by code point)
Ascii ==
    <<"!=", "'N1", "'N1'", "'n1'", "*", ",", "0", "1", "2", "3", "4", "80", ";", "<",
      "<=", "=", ">", ">=", "ABC", "AGE", "AND", "ASC", "AVG_GRADE", "BY", "CREATE",
      "DELETE",
      "DESC", "DROP", "FROM", "GROUP", "IN", "INSERT", "LIKE", "LIMIT", "N1",
      "N1'", "N2", "NAME", "NULL", "OR", "ORDER", "R1", "R2", "R3", "ROLL_NO",
      "S1", "S2",
      "SELECT", "SERT", "SHOW", "STUDENTS", "TABLE", "UPDATE", "WHERE",
      "abc", "age", "and", "asc", "avg_grade", "by", "create", "delete", "desc", "drop",
      "from", "group", "in", "insert", "like", "limit", "n1", "n2", "name",
      "or", "order", "r1", "r2", "r3", "roll_no", "select", "sert", "show",
      "students", "table", "update", "where">>

Rank(word) == CHOOSE i \in 1..Len(Ascii) : Ascii[i] = word

\* a < b for two strings: the first word that differs decides, a string
\* that is the start of the other is the smaller one (a space sorts below
\* every character of a word)
RECURSIVE StrLess(_, _)
StrLess(a, b) ==
    IF a = <<>> THEN b # <<>>
    ELSE IF b = <<>> THEN FALSE
    ELSE IF Head(a) = Head(b) THEN StrLess(Tail(a), Tail(b))
    ELSE Rank(Head(a)) < Rank(Head(b))

\* part is a piece of word: the word itself, or one of the pairs of words
\* of which the first is inside the second
InsideWord == {<<"IN", "INSERT">>, <<"SERT", "INSERT">>, <<"1", "N1">>,
               <<"2", "N2">>, <<"1", "R1">>, <<"2", "R2">>, <<"3", "R3">>}

Holds(word, part) == word = part \/ <<part, word>> \in InsideWord

\* b in a for two strings: the words of b stand in a, or b is one word
\* that is a piece of a word of a
StrIn(b, a) ==
    \/ b = <<>>
    \/ \E i \in 1..Len(a) : At(a, b, i)
    \/ Len(b) = 1 /\ \E i \in 1..Len(a) : Holds(a[i], b[1])

\* ' word ' in text: the word stands in the text with a word on either side
HasInner(text, word) == \E j \in 2..(Len(text) - 1) : text[j] = word

\* text.split(' word ')
RECURSIVE Split(_, _)
Split(text, word) ==
    IF HasInner(text, word)
    THEN LET j == MinOf({k \in 2..(Len(text) - 1) : text[k] = word}) IN
         <<SubSeq(text, 1, j - 1)>> \o Split(SubSeq(text, j + 1, Len(text)), word)
    ELSE <<text>>

\* text.split(','), the commas being words of their own
RECURSIVE SplitCommas(_)
SplitCommas(text) ==
    IF \E j \in 1..Len(text) : text[j] = ","
    THEN LET j == MinOf({k \in 1..Len(text) : text[k] = ","}) IN
         <<SubSeq(text, 1, j - 1)>> \o SplitCommas(SubSeq(text, j + 1, Len(text)))
    ELSE <<text>>

\* the string a text is, for messages and dict keys
RECURSIVE Join(_)
Join(text) ==
    IF text = <<>> THEN ""
    ELSE IF Len(text) = 1 THEN text[1]
    ELSE text[1] \o " " \o Join(Tail(text))

\* float(value): a number, or None where Python raises ValueError
float(value) ==
    IF IsNum(value) THEN value
    ELSE IF Len(value.str) = 1 /\ LeadingDigits(value.str[1]) = value.str[1]
                               /\ value.str[1] # ""
    THEN Num(int(value.str[1]))
    ELSE None

\* str(value): the digits of an int, with .0 after them for a float that
\* is a whole number
Digits == <<"0", "1", "2", "3", "4", "5", "6", "7", "8", "9">>

RECURSIVE NumStr(_)
NumStr(n) ==
    IF n < 10 THEN Digits[n + 1] ELSE NumStr(n \div 10) \o Digits[(n % 10) + 1]

str(value) ==
    IF IsFloat(value) THEN Str(<<NumStr(value.num) \o ".0">>)
    ELSE IF IsNum(value) THEN Str(<<NumStr(value.num)>>)
    ELSE IF value = None THEN Str(<<"None">>)
    ELSE value

\* student.get(key) for a key that holds a string: the dicts of the store
\* have the keys roll_no and name, some have courses and grades as well
Get(student, key) ==
    IF key \in DOMAIN student THEN Str(<<student[key]>>) ELSE None

\* student.get(key, []) for the two keys that hold lists
GetList(student, key) ==
    IF key \in DOMAIN student THEN student[key] ELSE <<>>

\* ', '.join(items): the words of the text are the items, each but the last
\* with its comma
JoinComma(items) ==
    [i \in 1..Len(items) |-> IF i < Len(items) THEN items[i] \o "," ELSE items[i]]

RECURSIVE Sum(_)
Sum(grades) == IF grades = <<>> THEN 0 ELSE Head(grades) + Sum(Tail(grades))

\* sum(grades) / len(grades) if grades else 0: the quotient is a float; the
\* grade lists of the model have averages that are whole numbers
Average(grades) ==
    IF grades = <<>> THEN Num(0) ELSE Float(Sum(grades) \div Len(grades))

get_field_value(student, field) ==
    LET name == Upper(field) IN
    IF name = <<"ROLL_NO">> THEN Get(student, "roll_no")
    ELSE IF name = <<"NAME">> THEN Get(student, "name")
    ELSE IF name = <<"EMAIL">> THEN Get(student, "email")
    ELSE IF name = <<"COURSES">> THEN Str(JoinComma(GetList(student, "courses")))
    ELSE IF name = <<"GRADES">>
    THEN Str(JoinComma([i \in 1..Len(GetList(student, "grades")) |->
                           NumStr(GetList(student, "grades")[i])]))
    ELSE IF name = <<"AVG_GRADE">> THEN Average(GetList(student, "grades"))
    ELSE IF name = <<"COURSE_COUNT">> THEN Num(Len(GetList(student, "courses")))
    ELSE Get(student, Join(Lower(name)))

compare_values(student, field, operator, value) ==
    LET student_value == get_field_value(student, field)
        text == str(student_value).str
        num_student == float(student_value)
        num_value == float(Str(value)) IN
    IF student_value = None THEN FALSE
    ELSE IF operator = "=" THEN Upper(text) = Upper(value)
    ELSE IF operator = "!=" THEN Upper(text) # Upper(value)
    ELSE IF operator = "LIKE" THEN StrIn(Upper(value), Upper(text))
    ELSE IF operator \in {">", "<", ">=", "<="}
    THEN IF num_student # None /\ num_value # None
         THEN CASE operator = ">" -> num_student.num > num_value.num
                [] operator = "<" -> num_student.num < num_value.num
                [] operator = ">=" -> num_student.num >= num_value.num
                [] operator = "<=" -> num_student.num <= num_value.num
         ELSE CASE operator = ">" -> StrLess(value, text)
                [] operator = "<" -> StrLess(text, value)
                [] operator = ">=" -> ~StrLess(text, value)
                [] operator = "<=" -> ~StrLess(value, text)
    ELSE IF operator = "IN"
    THEN LET values == SplitCommas(value) IN
         \E i \in 1..Len(values) : Upper(text) = Upper(StripQuotes(values[i]))
    ELSE FALSE

operators == <<">=", "<=", "!=", "=", ">", "<", "LIKE", "IN">>

\* condition.split(op, 1) and the strips: the field and the value around
\* the first word that holds op; the one word that holds an operator and
\* more is INSERT
SplitAtOperator(condition, op) ==
    LET i == MinOf({k \in 1..Len(condition) : Holds(condition[k], op)})
        before_op == SubSeq(condition, 1, i - 1)
        after_op == SubSeq(condition, i + 1, Len(condition)) IN
    IF condition[i] = op
    THEN [field |-> before_op, value |-> StripQuotes(after_op)]
    ELSE [field |-> before_op, value |-> StripQuotes(<<"SERT">> \o after_op)]

evaluate_single_condition(student, condition) ==
    LET found == {n \in 1..Len(operators) :
                     \E k \in 1..Len(condition) : Holds(condition[k], operators[n])} IN
    IF found = {}
    THEN [ok |-> FALSE, error |-> "Invalid condition: " \o Join(condition)]
    ELSE LET op == operators[MinOf(found)]
             parts == SplitAtOperator(condition, op) IN
         [ok |-> TRUE, value |-> compare_values(student, parts.field, op, parts.value)]

\* all(...) and any(...) over a generator: the conditions are evaluated in
\* order, up to the first that decides or raises; values are the results
\* of the conditions, in order
RECURSIVE AllOf(_)
AllOf(values) ==
    IF values = <<>> THEN [ok |-> TRUE, value |-> TRUE]
    ELSE IF ~Head(values).ok \/ ~Head(values).value THEN Head(values)
    ELSE AllOf(Tail(values))

RECURSIVE AnyOf(_)
AnyOf(values) ==
    IF values = <<>> THEN [ok |-> TRUE, value |-> FALSE]
    ELSE IF ~Head(values).ok \/ Head(values).value THEN Head(values)
    ELSE AnyOf(Tail(values))

\* the conditions _evaluate_condition hands to _evaluate_single_condition
SplitCondition(condition) ==
    IF HasInner(condition, "AND") THEN Split(condition, "AND")
    ELSE IF HasInner(condition, "OR") THEN Split(condition, "OR")
    ELSE <<condition>>

\* what _evaluate_condition makes of the results of its conditions
Combine(condition, values) ==
    IF HasInner(condition, "AND") THEN AllOf(values)
    ELSE IF HasInner(condition, "OR") THEN AnyOf(values)
    ELSE values[1]

evaluate_condition(student, condition) ==
    Combine(condition,
            [i \in 1..Len(SplitCondition(condition)) |->
                evaluate_single_condition(student, SplitCondition(condition)[i])])

\* the loop of _apply_where_clause over the results of the condition on
\* the students, in order
RECURSIVE WhereLoop(_, _)
WhereLoop(students_list, kept) ==
    IF students_list = <<>> THEN [ok |-> TRUE, students |-> <<>>]
    ELSE IF ~Head(kept).ok THEN Head(kept)
    ELSE LET rest == WhereLoop(Tail(students_list), Tail(kept)) IN
         IF ~rest.ok THEN rest
         ELSE [ok |-> TRUE,
               students |-> IF Head(kept).value
                            THEN <<Head(students_list)>> \o rest.students
                            ELSE rest.students]

\* the first condition that raises ends the loop
apply_where_clause(students_list, where_clause) ==
    WhereLoop(students_list,
              [i \in 1..Len(students_list) |->
                  evaluate_condition(students_list[i], where_clause)])

\* key(a) < key(b) for two sort keys, None where Python raises TypeError
\* (a number against a string)
KeyLess(a, b) ==
    IF IsNum(a) /\ IsNum(b) THEN [ok |-> TRUE, value |-> a.num < b.num]
    ELSE IF IsStr(a) /\ IsStr(b) THEN [ok |-> TRUE, value |-> StrLess(a.str, b.str)]
    ELSE [ok |-> FALSE]

sort_key(student, field) ==
    LET value == get_field_value(student, field) IN
    IF value = None THEN Str(<<>>)
    ELSE IF float(value) # None THEN float(value)
    ELSE Str(Upper(str(value).str))

Reverse(seq) == [i \in 1..Len(seq) |-> seq[Len(seq) + 1 - i]]

\* sorted(students, key): stable, an element goes after the elements that
\* are not greater
RECURSIVE Insert(_, _, _)
Insert(sorted_list, student, field) ==
    IF sorted_list = <<>> THEN <<student>>
    ELSE IF KeyLess(sort_key(student, field), sort_key(Head(sorted_list), field)).value
    THEN <<student>> \o sorted_list
    ELSE <<Head(sorted_list)>> \o Insert(Tail(sorted_list), student, field)

RECURSIVE Sorted(_, _)
Sorted(students_list, field) ==
    IF students_list = <<>> THEN <<>>
    ELSE Insert(Sorted(SubSeq(students_list, 1, Len(students_list) - 1), field),
                students_list[Len(students_list)], field)

\* sorted raises when it has to compare a number with a string: with two
\* records or more, some comparison is between keys of the two kinds
Comparable(students_list, field) ==
    \A i, j \in 1..Len(students_list) :
        KeyLess(sort_key(students_list[i], field), sort_key(students_list[j], field)).ok

\* reverse=True sorts the reversed list and reverses the result
apply_order_by(students_list, order_clause) ==
    LET field == <<order_clause[1]>>
        direction == IF Len(order_clause) > 1 /\ upper(order_clause[2]) \in {"ASC", "DESC"}
                     THEN upper(order_clause[2]) ELSE "ASC" IN
    IF ~Comparable(students_list, field)
    THEN [ok |-> FALSE,
          error |-> "Error in ORDER BY: '<' not supported between instances of 'str' and 'float'"]
    ELSE [ok |-> TRUE,
          students |-> IF direction = "DESC"
                       THEN Reverse(Sorted(Reverse(students_list), field))
                       ELSE Sorted(students_list, field)]

\* groups[group_key].append(student), the keys in the order they are first seen
RECURSIVE GroupLoop(_, _, _)
GroupLoop(groups, students_list, field) ==
    IF students_list = <<>> THEN groups
    ELSE LET student == Head(students_list)
             group_value == get_field_value(student, field)
             group_key == IF group_value = None THEN Str(<<"NULL">>) ELSE str(group_value)
             at == {i \in 1..Len(groups) : groups[i].group = group_key} IN
         GroupLoop(IF at = {}
                   THEN Append(groups, [group |-> group_key, students |-> <<student>>])
                   ELSE [groups EXCEPT ![MinOf(at)].students = Append(@, student)],
                   Tail(students_list), field)

\* _apply_group_by returning the group seen last first
apply_group_by_newest_first(students_list, group_clause) ==
    LET groups == Reverse(GroupLoop(<<>>, students_list, group_clause)) IN
    [i \in 1..Len(groups) |->
        [group |-> groups[i].group,
         count |-> Len(groups[i].students),
         students |-> groups[i].students]]

apply_group_by(students_list, group_clause) ==
    LET groups == GroupLoop(<<>>, students_list, group_clause) IN
    [i \in 1..Len(groups) |->
        [group |-> groups[i].group,
         count |-> Len(groups[i].students),
         students |-> groups[i].students]]

\* _apply_select returning the records with all their fields
apply_select_whole(students_list, select_clause) == students_list

\* the dict of one row: the keys are the lower-case field names
apply_select(students_list, select_clause) ==
    IF select_clause = <<"*">> THEN students_list
    ELSE LET fields == SplitCommas(select_clause)
             keys == {Join(Lower(Upper(fields[n]))) : n \in 1..Len(fields)}
             field_of(key) == Upper(fields[CHOOSE n \in 1..Len(fields) :
                                              Join(Lower(Upper(fields[n]))) = key]) IN
         [i \in 1..Len(students_list) |->
             [key \in keys |-> get_field_value(students_list[i], field_of(key))]]

\* The steps of execute_query on the parsed query, each on the list the
\* step before it left
where_step(parsed, students_list) ==
    IF parsed.WHERE # None THEN apply_where_clause(students_list, parsed.WHERE.str)
    ELSE [ok |-> TRUE, students |-> students_list]

order_step(parsed, students_list) ==
    IF parsed.ORDER_BY # None THEN apply_order_by(students_list, parsed.ORDER_BY.str)
    ELSE [ok |-> TRUE, students |-> students_list]

\* students[:limit]
limit_step(parsed, students_list) ==
    IF parsed.LIMIT # None
    THEN SubSeq(students_list, 1, Min(int(parsed.LIMIT.str[1]), Len(students_list)))
    ELSE students_list

select_step(parsed, students_list) ==
    IF parsed.SELECT # Str(<<"*">>) THEN apply_select(students_list, parsed.SELECT.str)
    ELSE students_list

\* execute_query from the LIMIT clause on, ordered being what the ORDER BY
\* step returned or raised
after_order(parsed, ordered) ==
    IF ~ordered.ok
    THEN [ok |-> FALSE, error |-> "Query execution error: " \o ordered.error]
    ELSE [ok |-> TRUE,
          rows |-> select_step(parsed, limit_step(parsed, ordered.students))]

\* after_where grouping what ORDER BY and LIMIT left
after_where_group_last(parsed, students_list) ==
    IF parsed.GROUP_BY # None
    THEN [ok |-> TRUE,
          rows |-> apply_group_by(
                       limit_step(parsed, order_step(parsed, students_list).students),
                       parsed.GROUP_BY.str)]
    ELSE after_order(parsed, order_step(parsed, students_list))

\* after_where cutting the list to LIMIT before it sorts it
after_where_limit_first(parsed, students_list) ==
    IF parsed.GROUP_BY # None
    THEN [ok |-> TRUE, rows |-> apply_group_by(students_list, parsed.GROUP_BY.str)]
    ELSE after_order(parsed, order_step(parsed, limit_step(parsed, students_list)))

\* execute_query from the GROUP BY clause on: the groups are returned at
\* once, before ORDER BY, LIMIT and the column filter
after_where(parsed, students_list) ==
    IF parsed.GROUP_BY # None
    THEN [ok |-> TRUE, rows |-> apply_group_by(students_list, parsed.GROUP_BY.str)]
    ELSE after_order(parsed, order_step(parsed, students_list))

\* execute_query after the WHERE step, filtered being what it returned or
\* raised
after_filter(parsed, filtered) ==
    IF ~filtered.ok
    THEN [ok |-> FALSE, error |-> "Query execution error: " \o filtered.error]
    ELSE after_where(parsed, filtered.students)

\* execute_query after _parse_query, parse being what it returned or raised
after_parse(parse, students_list) ==
    IF ~parse.ok
    THEN [ok |-> FALSE, error |-> "Query execution error: " \o parse.error]
    ELSE after_filter(parse.parsed, where_step(parse.parsed, students_list))

\* What execute_query does with the list get_all_students returned: the
\* rows it returns, or the message of the exception it raises
execute_query(query_string, students_list) ==
    after_parse(parse_query(Upper(query_string)), students_list)

\* validate_query, which no caller of the engine runs
validate_query(query_string) ==
    LET query == Upper(query_string)
        unsupported == <<"INSERT", "UPDATE", "DELETE", "DROP", "CREATE">>
        found == {n \in 1..Len(unsupported) :
                     \E i \in 1..Len(query) : Holds(query[i], unsupported[n])} IN
    IF query = <<>> \/ query[1] # "SELECT"
    THEN [ok |-> FALSE, message |-> "Query must start with SELECT"]
    ELSE IF found # {}
    THEN [ok |-> FALSE, message |-> "Unsupported operation: " \o unsupported[MinOf(found)]]
    ELSE [ok |-> TRUE, message |-> "Query is valid"]

\* ------------------------------------------------------- the query route
\* The texts sent to the route.  A text is made of the words before the
\* query, SELECT with a list and FROM students (none of the three when
\* select is <<>>), a condition after WHERE, a GROUP BY, an ORDER BY and a
\* LIMIT clause (LIMIT before ORDER BY when limit_first), and the words
\* after the query.
Prefixes == {<<>>, <<"SHOW">>, <<"DROP", "TABLE", "students">>,
             <<"drop", "table", "students">>}

Selects == {<<>>, <<"*">>, <<"name">>, <<"roll_no", ",", "name">>}

NameIsN1 == <<"name", "=", "n1">>
RollIsNotR1 == <<"roll_no", "!=", "r1">>
RollIsR1 == <<"roll_no", "=", "r1">>

Conditions ==
    {<<>>, NameIsN1, <<"name", "=", "'n1'">>, <<"name", "!=", "delete">>,
     <<"age", "!=", "1">>, <<"name">>,
     NameIsN1 \o <<"AND">> \o RollIsNotR1,
     NameIsN1 \o <<"OR">> \o RollIsR1,
     NameIsN1 \o <<"AND">> \o RollIsNotR1 \o <<"OR">> \o RollIsR1,
     <<"name", "!=", "n1">> \o <<"AND">> \o RollIsNotR1 \o <<"OR">> \o RollIsR1,
     NameIsN1 \o <<"OR">> \o RollIsR1 \o <<"AND">> \o <<"name", "=", "n2">>}

Groupings == {<<>>, <<"name">>}

Orderings == {<<>>, <<"name">>, <<"name", "DESC">>}

Limits == {<<>>, <<"0">>, <<"1">>, <<"2">>, <<"abc">>}

Suffixes == {<<>>, <<";", "DROP", "TABLE", "students">>,
             <<";", "delete", "from", "students">>}

QueryForms ==
    [prefix : Prefixes, select : Selects, where : Conditions, group : Groupings,
     order : Orderings, limit : Limits, limit_first : BOOLEAN, suffix : Suffixes]

Plain(q) == q.group = <<>> /\ q.order = <<>> /\ q.limit = <<>> /\ ~q.limit_first

\* statements around a query; conditions of every kind; queries with
\* every mix of clauses
QueryTexts ==
    {q \in QueryForms :
        \/ /\ Plain(q)
           /\ q.select \in {<<>>, <<"*">>}
           /\ q.where \in {<<>>, <<"name", "!=", "delete">>}
           /\ q.select = <<>> => q.where = <<>> /\ q.prefix \o q.suffix # <<>>
        \/ /\ Plain(q)
           /\ q.prefix = <<>> /\ q.suffix = <<>> /\ q.select = <<"*">>
        \/ /\ q.prefix = <<>> /\ q.suffix = <<>> /\ q.select # <<>>
           /\ q.where \in {<<>>, NameIsN1}
           /\ q.limit_first => q.limit # <<>> /\ q.order # <<>>}

Render(q) ==
    LET group == IF q.group = <<>> THEN <<>> ELSE <<"GROUP", "BY">> \o q.group
        order == IF q.order = <<>> THEN <<>> ELSE <<"ORDER", "BY">> \o q.order
        limit == IF q.limit = <<>> THEN <<>> ELSE <<"LIMIT">> \o q.limit IN
    q.prefix
    \o (IF q.select = <<>> THEN <<>>
        ELSE <<"SELECT">> \o q.select \o <<"FROM", "students">>)
    \o (IF q.where = <<>> THEN <<>> ELSE <<"WHERE">> \o q.where)
    \o group
    \o (IF q.limit_first THEN limit \o order ELSE order \o limit)
    \o q.suffix

\* query() with an engine that takes the records out of the store it reads
query_draining ==
    LET query_text == Render(request)
        result == execute_query(query_text, LinkedList_to_list(students)) IN
    /\ request # None
    /\ request' = None
    /\ before' = students
    /\ students' = LinkedList_init
    /\ UNCHANGED <<operation_history, snapshot>>
    /\ last' = [op |-> "query", form |-> request, query_text |-> query_text,
                ok |-> result.ok,
                results |-> IF result.ok THEN result.rows ELSE <<>>,
                error |-> IF result.ok THEN "" ELSE result.error]

\* query() of app.py on a POST: the rows shown are those execute_query
\* returned, none when it raised
query ==
    LET query_text == Render(request)
        result == execute_query(query_text, LinkedList_to_list(students)) IN
    /\ request # None
    /\ request' = None
    /\ before' = students
    /\ UNCHANGED <<students, operation_history, snapshot>>
    /\ last' = [op |-> "query", form |-> request, query_text |-> query_text,
                ok |-> result.ok,
                results |-> IF result.ok THEN result.rows ELSE <<>>,
                error |-> IF result.ok THEN "" ELSE result.error]

\* The stores the queries run on: what load_data read from the data file
\* when the manager was built, records of different roll numbers
QueryRolls == {"r1", "r2", "r3"}

QueryStores ==
    UNION {{nodes \in [1..n -> [roll_no : QueryRolls, name : Names]] :
               \A i, j \in 1..n : i # j => nodes[i].roll_no # nodes[j].roll_no} :
           n \in 0..QueryMaxStudents}

\* a store and a form posted to the route
InitQuery ==
    /\ \E nodes \in QueryStores :
          students = [nodes |-> nodes, size |-> Len(nodes),
                      snap |-> [i \in 1..Len(nodes) |-> 0]]
    /\ operation_history = Stack_init(HistCap)
    /\ last = [op |-> "init", ret |-> None]
    /\ before = LinkedList_init
    /\ snapshot = <<>>
    /\ request \in QueryTexts

NextQuery == query

SpecQuery == InitQuery /\ [][NextQuery]_vars

\* -------------------------------------------- the clauses, one at a time
\* Queries of one clause each on stores that bring out what the clause
\* does: roll numbers that are numbers next to one that is not, names that
\* are the same, a field no record has, grade lists.
Form(select, where, group, order) ==
    [prefix |-> <<>>, select |-> select, where |-> where, group |-> group,
     order |-> order, limit |-> <<>>, limit_first |-> FALSE, suffix |-> <<>>]

SortFields == {"name", "roll_no"}

OrderForms ==
    {Form(<<"*">>, <<>>, <<>>, <<field>> \o direction) :
        field \in SortFields, direction \in {<<>>, <<"ASC">>, <<"DESC">>}}

GroupForms ==
    {Form(<<"*">>, where, <<field>>, <<>>) :
        where \in {<<>>, NameIsN1}, field \in {"name", "roll_no", "age"}}

\* conditions on age, a key no dict of the store has, and on avg_grade, which
\* is computed from the key grades, which the dicts of ClauseStores do not have
MissingFieldForms ==
    {Form(<<"*">>, <<field, op, "1">>, <<>>, <<>>) :
        field \in {"age", "avg_grade"},
        op \in {">=", "<=", "!=", "=", ">", "<", "LIKE", "IN"}}

ClauseRolls == {"1", "2", "r1"}

ClauseStores ==
    UNION {{nodes \in [1..n -> [roll_no : ClauseRolls, name : Names]] :
               \A i, j \in 1..n : i # j => nodes[i].roll_no # nodes[j].roll_no} :
           n \in 0..ClauseMaxStudents}

\* the two records of the example, and the queries on their grades
S1 == [roll_no |-> "S1", name |-> "n1", courses |-> <<"Math", "Bio">>,
       grades |-> <<95, 85>>]

S2 == [roll_no |-> "S2", name |-> "n2", courses |-> <<"Math">>, grades |-> <<70>>]

GradeStores == {<<>>, <<S1>>, <<S2>>, <<S1, S2>>, <<S2, S1>>}

AvgAbove80 == <<"avg_grade", ">", "80">>

GradeForms ==
    {Form(select, where, <<>>, order) :
        select \in {<<"*">>, <<"name">>}, where \in {<<>>, AvgAbove80},
        order \in {<<>>, <<"avg_grade">>, <<"avg_grade", "DESC">>}}

\* a store and a form posted to the route
ClauseCases ==
    (ClauseStores \X (OrderForms \cup GroupForms \cup MissingFieldForms))
    \cup (GradeStores \X GradeForms)

InitClauses ==
    /\ \E case \in ClauseCases :
          /\ students = [nodes |-> case[1], size |-> Len(case[1]),
                         snap |-> [i \in 1..Len(case[1]) |-> 0]]
          /\ request = case[2]
    /\ operation_history = Stack_init(HistCap)
    /\ last = [op |-> "init", ret |-> None]
    /\ before = LinkedList_init
    /\ snapshot = <<>>

\* The page shows the text of the query in its form again
\* (query_text=query_text); the user posts it once more
resubmit ==
    /\ request = None
    /\ last.op = "query"
    /\ request' = last.form
    /\ UNCHANGED <<students, operation_history, last, before, snapshot>>

NextClauses == query \/ resubmit

SpecClauses == InitClauses /\ [][NextClauses]_vars

\* ------------------------------------------------------------ the reports
\* A grade is a number of thousandths: 89.999 is 89999.  The lower bounds
\* of the letter bands, in points:
BandA == 90
BandB == 80
BandC == 70
BandD == 60

\* grade >= points
AtLeast(grade, points) == grade >= points * 1000

\* the if/elif chain over the grade: the band of grade_distribution that
\* the grade adds 1 to, with lower bounds that leave the bound out
grade_band_exclusive(grade) ==
    IF grade > BandA * 1000 THEN "A"
    ELSE IF grade > BandB * 1000 THEN "B"
    ELSE IF grade > BandC * 1000 THEN "C"
    ELSE IF grade > BandD * 1000 THEN "D"
    ELSE "F"

\* the if/elif chain over the grade: the band of grade_distribution that
\* the grade adds 1 to
grade_band(grade) ==
    IF AtLeast(grade, BandA) THEN "A"
    ELSE IF AtLeast(grade, BandB) THEN "B"
    ELSE IF AtLeast(grade, BandC) THEN "C"
    ELSE IF AtLeast(grade, BandD) THEN "D"
    ELSE "F"

\* zip(courses, grades): as many pairs as the shorter list has elements
zip(courses, grades) ==
    [i \in 1..Min(Len(courses), Len(grades)) |-> <<courses[i], grades[i]>>]

\* for course, grade in zip(courses, grades)
RECURSIVE PairLoop(_, _)
PairLoop(grade_distribution, pairs) ==
    IF pairs = <<>> THEN grade_distribution
    ELSE PairLoop([grade_distribution EXCEPT ![grade_band(Head(pairs)[2])] = @ + 1],
                  Tail(pairs))

\* for student in all_students
RECURSIVE StudentLoop(_, _)
StudentLoop(grade_distribution, all_students) ==
    IF all_students = <<>> THEN grade_distribution
    ELSE StudentLoop(PairLoop(grade_distribution,
                              zip(GetList(Head(all_students), "courses"),
                                  GetList(Head(all_students), "grades"))),
                     Tail(all_students))

\* reports(): the grade distribution of report_data; the route reads the
\* store and writes nothing
reports ==
    /\ before' = students
    /\ UNCHANGED <<students, operation_history, snapshot, request>>
    /\ last' = [op |-> "reports",
                grade_distribution |->
                    StudentLoop([band \in {"A", "B", "C", "D", "F"} |-> 0],
                                LinkedList_to_list(students))]

\* the grades on either side of the bounds of the bands
ReportGrades == <<90000, 89999, 80000, 79999, 70000, 69999, 60000, 59999>>

ReportCourses == {<<>>, <<"Math">>, <<"Math", "Bio">>}

\* no grade, one, or two that are the same or next to each other
GradeLists ==
    {<<>>} \cup {<<ReportGrades[i]>> : i \in DOMAIN ReportGrades}
           \cup {<<ReportGrades[p[1]], ReportGrades[p[2]]>> :
                    p \in {q \in (DOMAIN ReportGrades) \X (DOMAIN ReportGrades) :
                              q[2] \in (q[1] - 1)..(q[1] + 1)}}

\* The stores the reports are made of: what load_data read from the data
\* file, records of different roll numbers with their courses and grades
ReportRolls == <<"r1", "r2", "r3">>

ReportStores ==
    UNION {{[i \in 1..n |-> [roll_no |-> ReportRolls[i], name |-> "n1",
                             courses |-> lists[i][1], grades |-> lists[i][2]]] :
               lists \in [1..n -> ReportCourses \X GradeLists]} :
           n \in 0..ReportMaxStudents}

InitReports ==
    /\ \E nodes \in ReportStores :
          students = [nodes |-> nodes, size |-> Len(nodes),
                      snap |-> [i \in 1..Len(nodes) |-> 0]]
    /\ operation_history = Stack_init(HistCap)
    /\ last = [op |-> "init", ret |-> None]
    /\ before = LinkedList_init
    /\ snapshot = <<>>
    /\ request = None

NextReports == reports

SpecReports == InitReports /\ [][NextReports]_vars

\* ------------------------------------------------------------- properties
\* Helpers of the properties, written without the operators of the model
HasRoll(nodes, roll_no) == \E i \in 1..Len(nodes) : nodes[i].roll_no = roll_no

CountRoll(nodes, roll_no) == Cardinality({i \in 1..Len(nodes) : nodes[i].roll_no = roll_no})

FirstPos(nodes, roll_no) ==
    CHOOSE i \in 1..Len(nodes) :
        /\ nodes[i].roll_no = roll_no
        /\ \A j \in 1..(i - 1) : nodes[j].roll_no # roll_no

Mutations == {"add_student", "update_student", "delete_student"}

\* what a push of `entry' makes of `items' under capacity `cap'
Pushed(items, entry, cap) ==
    Append(IF Len(items) >= cap THEN Tail(items) ELSE items, entry)

\* C1: add_student with a roll number that is already in the store returns
\* False and leaves the list as it was: same nodes, same order, same size.
C1_DuplicateInsertFails ==
    [][(last'.op = "add_student" /\ HasRoll(students.nodes, last'.roll_no))
           => (last'.ret = FALSE /\ students' = students)]_vars

C1_Witness ==
    /\ last.op = "add_student"
    /\ last.ret = FALSE
    /\ HasRoll(before.nodes, last.roll_no)
    /\ students = before

\* C2: a successful add_student, update_student or delete_student pushes
\* exactly one entry, which becomes the top of operation_history; a failed
\* one leaves operation_history as it was.
C2_ExpectedEntry ==
    IF last'.op = "add_student" THEN [action |-> "add", data |-> last'.data]
    ELSE IF last'.op = "update_student"
    THEN [action |-> "update", roll_no |-> last'.roll_no,
          old_data |-> students.nodes[FirstPos(students.nodes, last'.roll_no)],
          new_data |-> last'.data]
    ELSE [action |-> "delete",
          data |-> students.nodes[FirstPos(students.nodes, last'.roll_no)]]

C2_OneEntryPerSuccess ==
    [][last'.op \in Mutations =>
           IF last'.ret = TRUE
           THEN operation_history'.items =
                    Pushed(operation_history.items, C2_ExpectedEntry,
                           operation_history.max_size)
           ELSE operation_history' = operation_history]_vars

C2_Witness ==
    /\ last.op = "update_student"
    /\ last.ret = TRUE
    /\ before.nodes # students.nodes
    /\ Len(operation_history.items) = HistCap
    /\ operation_history.items[HistCap].action = "update"

\* C3: a successful delete_student(r) immediately followed by
\* undo_last_operation leaves exactly one record with roll number r in the
\* store, equal in every field to the record that was deleted.
C3_DeleteUndoRestoresRecord ==
    [][(last.op = "delete_student" /\ last.ret = TRUE /\ last'.op = "undo_last_operation")
           => LET r == last.roll_no
                  deleted == before.nodes[FirstPos(before.nodes, r)]
              IN /\ CountRoll(students'.nodes, r) = 1
                 /\ \A i \in 1..Len(students'.nodes) :
                        students'.nodes[i].roll_no = r => students'.nodes[i] = deleted]_vars

\* C4: a successful update_student(r, newFields) immediately followed by
\* undo_last_operation leaves the record that was updated with its
\* pre-update field values, whatever newFields was.
C4_UpdateUndoRestoresFields ==
    [][(last.op = "update_student" /\ last.ret = TRUE /\ last'.op = "undo_last_operation")
           => LET i == FirstPos(before.nodes, last.roll_no)
              IN students'.nodes[i] = before.nodes[i]]_vars

\* C5: a successful add_student immediately followed by undo_last_operation
\* leaves the record count (the size counter and the number of nodes) as it
\* was before the insert, and the inserted roll number is not in the store.
C5_AddUndoRestoresCount ==
    [][(last.op = "add_student" /\ last.ret = TRUE /\ last'.op = "undo_last_operation")
           => /\ students'.size = before.size
              /\ Len(students'.nodes) = Len(before.nodes)
              /\ ~HasRoll(students'.nodes, last.roll_no)]_vars

C5_Witness ==
    /\ last.op = "undo_last_operation"
    /\ last.ret = <<TRUE, "Successfully undid add operation">>
    /\ Len(before.nodes) = 2
    /\ Len(students.nodes) = 1
    /\ students.size = 1

\* the inverse of a history entry cannot be applied: the roll number to
\* delete (add entry) or to write back (update entry) is not in the list
InverseInapplicable(nodes, entry) ==
    \/ entry.action = "add" /\ ~HasRoll(nodes, entry.data.roll_no)
    \/ entry.action = "update" /\ ~HasRoll(nodes, entry.roll_no)

\* C6: when undo_last_operation pops an entry whose inverse cannot be
\* applied, the entry is pushed back (the history is as before the call)
\* and the call reports failure.
C6_FailedUndoKeepsEntry ==
    [][(/\ last'.op = "undo_last_operation"
        /\ operation_history.items # <<>>
        /\ InverseInapplicable(students.nodes,
                               operation_history.items[Len(operation_history.items)]))
           => /\ operation_history' = operation_history
              /\ last'.ret[1] = FALSE]_vars

\* C7: get_student(r) returns what the last successful add, update or delete
\* of r left: stated for each step of a sequence, a successful add or update
\* of r makes the lookup of r return the record it wrote, a successful
\* delete of r makes it return None, and the lookup of every other roll
\* number is what it was; a get_student call returns that lookup.
C7_LookupReflectsLastMutation ==
    [][/\ (last'.op \in Mutations /\ last'.ret = TRUE) =>
              /\ LinkedList_find(students', last'.roll_no) =
                     (IF last'.op = "delete_student" THEN None ELSE last'.data)
              /\ \A q \in Rolls \ {last'.roll_no} :
                     LinkedList_find(students', q) = LinkedList_find(students, q)
       /\ last'.op = "get_student" =>
              last'.ret = LinkedList_find(students, last'.roll_no)]_vars

\* C8: no two records in the store have the same roll number.
C8_UniqueRolls == \A r \in Rolls : CountRoll(students.nodes, r) <= 1

\* C9: after a successful update_student(r, newFields) the record that was
\* updated still has roll number r.
C9_UpdateKeepsRoll ==
    [][(last'.op = "update_student" /\ last'.ret = TRUE)
           => students'.nodes[FirstPos(students.nodes, last'.roll_no)].roll_no
                  = last'.roll_no]_vars


\* C10: the history never holds more than its capacity N; after any number
\* of successful inserts it holds the entries of the last min(N, inserts)
\* of them, oldest first, and get_operation_history(limit) returns the
\* most recent min(limit, N, inserts) of these, most recent first.
C10_HistoryBounded ==
    LET n == Len(students.nodes)
        N == operation_history.max_size
        m == Min(N, n)
        items == operation_history.items
    IN /\ Len(items) <= N
       /\ items = [i \in 1..m |-> [action |-> "add", data |-> students.nodes[n - m + i]]]
       /\ last.op = "get_operation_history" =>
              last.ret = [i \in 1..Min(last.limit, m) |->
                              [action |-> "add", data |-> students.nodes[n - i + 1]]]

C10_Witness ==
    /\ Len(students.nodes) = InsertHistCap + 2
    /\ last.op = "get_operation_history"
    /\ last.limit = InsertHistCap
    /\ Len(last.ret) = InsertHistCap

\* C11: get_operation_history(limit) returns the min(limit, size) most recent
\* entries of the history, the most recent first, and leaves the history
\* with the same entries in the same order.
C11_HistoryReadNonDestructive ==
    [][last'.op = "get_operation_history" =>
          LET items == operation_history.items
              n == Min(last'.limit, Len(items)) IN
          /\ last'.ret = [k \in 1..n |-> items[Len(items) + 1 - k]]
          /\ operation_history' = operation_history]_vars

\* a read of part of a history that holds different entries
C11_Witness ==
    /\ last.op = "get_operation_history"
    /\ Len(last.ret) = 2
    /\ Len(operation_history.items) = 3
    /\ last.ret[1].action # last.ret[2].action

\* What the caller did to the store through the manager after get_all_students
ManagerWrites == Mutations \cup {"undo_last_operation"}

\* C12: the list get_all_students returned is not altered by a later add,
\* update, delete or undo: its length, its order and the values of every
\* record in it stay as they are.
C12_SnapshotStable ==
    [][last'.op \in ManagerWrites => snapshot' = snapshot]_vars

\* a record of the snapshot has been updated in the store since
C12_Witness ==
    /\ last.op = "update_student"
    /\ last.ret = TRUE
    /\ Len(snapshot) = 2
    /\ \E k \in 1..2 : /\ snapshot[k].roll_no = last.roll_no
                       /\ snapshot[k] # LinkedList_find(students, last.roll_no)

\* C13: the list get_all_students returned is independent of the store: the
\* caller changing the list, or a key of a record in it, does not change
\* the records the store holds.
C13_SnapshotIndependent ==
    [][last'.op \in {"snapshot_setitem", "snapshot_delitem"} =>
          /\ students'.nodes = students.nodes
          /\ students'.size = students.size]_vars

DropTableStudents == <<"DROP", "TABLE", "students">>

StatementKeywords == {"INSERT", "UPDATE", "DELETE", "DROP", "CREATE"}

MissingSelect == "Query execution error: Invalid query: Missing SELECT clause"

\* the messages that say a statement is not supported
UnsupportedQuery ==
    {head \o "Unsupported operation: " \o keyword :
        head \in {"", "Query execution error: "}, keyword \in StatementKeywords}

HasStatementKeyword(text) ==
    \E i \in 1..Len(text) : upper(text[i]) \in StatementKeywords

\* C15: a query text that holds one of INSERT, UPDATE, DELETE, DROP, CREATE,
\* in any letter case and at any place, is rejected and returns no rows.
C15_StatementKeywordRejected ==
    last.op = "query" /\ HasStatementKeyword(last.query_text) =>
        ~last.ok /\ last.results = <<>>

\* C16: execute_query fails with the missing-SELECT error for every text
\* that does not begin with SELECT, also when SELECT comes later in it.
C16_MustBeginWithSelect ==
    last.op = "query" /\ upper(last.query_text[1]) # "SELECT" =>
        ~last.ok /\ last.error = MissingSelect

Mixed(condition) ==
    /\ \E i \in 1..Len(condition) : upper(condition[i]) = "AND"
    /\ \E i \in 1..Len(condition) : upper(condition[i]) = "OR"

\* C17: a WHERE clause with both an AND and an OR is rejected: execute_query
\* fails and returns no filtered result.
C17_MixedCombinatorsRejected ==
    last.op = "query" /\ Mixed(last.form.where) => ~last.ok

\* the records a condition of the clause queries keeps, in store order
Filtered(nodes, where) ==
    SelectSeq(nodes, LAMBDA student : where = <<>> \/ student.name = "n1")

\* the query with its GROUP BY and WHERE only
GroupOnly(q) ==
    [q EXCEPT !.select = <<"*">>, !.order = <<>>, !.limit = <<>>, !.limit_first = FALSE]

\* C18: with GROUP BY the result is the group summaries of the records
\* WHERE keeps, whatever ORDER BY, LIMIT and projection list the query has:
\* it is the result of the query with none of them, and every record WHERE
\* keeps is among the members.
C18_GroupByAlone ==
    last.op = "query" /\ last.form.group # <<>> =>
        LET nodes == LinkedList_to_list(students)
            kept == Filtered(nodes, last.form.where)
            members == UNION {{last.results[i].students[k] :
                                  k \in 1..Len(last.results[i].students)} :
                              i \in 1..Len(last.results)} IN
        /\ last.ok
        /\ last.results = execute_query(Render(GroupOnly(last.form)), nodes).rows
        /\ members = {kept[k] : k \in 1..Len(kept)}
        /\ \A i \in 1..Len(last.results) :
              last.results[i].count = Len(last.results[i].students)

\* ORDER BY, LIMIT 1 and a projection on a query whose groups are two
C18_Witness ==
    /\ last.op = "query"
    /\ last.form.group # <<>>
    /\ last.form.order # <<>>
    /\ last.form.limit = <<"1">>
    /\ last.form.select = <<"name">>
    /\ Len(last.results) = 2

\* the rows of a list of records under a projection list
Projection(list, select) ==
    IF select = <<"*">> THEN list
    ELSE IF select = <<"name">>
    THEN [i \in 1..Len(list) |-> [name |-> Str(<<list[i].name>>)]]
    ELSE [i \in 1..Len(list) |->
             [roll_no |-> Str(<<list[i].roll_no>>), name |-> Str(<<list[i].name>>)]]

\* list holds the records of kept, by name in the direction asked for
\* when there is an ORDER BY, in the order of kept when there is none
InOrder(list, kept, order) ==
    /\ Len(list) = Len(kept)
    /\ {list[i] : i \in 1..Len(list)} = {kept[i] : i \in 1..Len(kept)}
    /\ order = <<>> => list = kept
    /\ order = <<"name">> =>
          \A i, j \in 1..Len(list) : i < j => ~StrLess(<<list[j].name>>, <<list[i].name>>)
    /\ order = <<"name", "DESC">> =>
          \A i, j \in 1..Len(list) : i < j => ~StrLess(<<list[i].name>>, <<list[j].name>>)

NumberWords == {"0", "1", "2"}

\* C19: without GROUP BY and with LIMIT N the result is the projection of
\* the first min(N, m) of the m records WHERE keeps, in the order ORDER BY
\* puts them in; LIMIT 0 gives no rows.
C19_LimitAfterOrderBy ==
    last.op = "query" /\ last.form.group = <<>> /\ last.form.limit # <<>>
                      /\ last.form.limit[1] \in NumberWords =>
        LET nodes == LinkedList_to_list(students)
            N == CHOOSE n \in 0..2 : NumStr(n) = last.form.limit[1]
            whole == execute_query(
                         Render([last.form EXCEPT !.select = <<"*">>, !.limit = <<>>,
                                                  !.limit_first = FALSE]), nodes).rows
            m == Len(whole) IN
        /\ last.ok
        /\ InOrder(whole, Filtered(nodes, last.form.where), last.form.order)
        /\ last.results = Projection(SubSeq(whole, 1, Min(N, m)), last.form.select)
        /\ N = 0 => last.results = <<>>

\* LIMIT 1 with ORDER BY on a store whose first record is not the first
\* by name
C19_Witness ==
    /\ last.op = "query"
    /\ last.form.group = <<>>
    /\ last.form.order = <<"name">>
    /\ last.form.limit = <<"1">>
    /\ last.form.select = <<"name">>
    /\ students.size = 2
    /\ students.nodes[1].name = "n2"
    /\ last.results = <<[name |-> Str(<<"n1">>)]>>

\* C20: a query whose LIMIT value is not a number fails with a query
\* execution error; it returns no rows as if there were no LIMIT.
C20_BadLimitFails ==
    last.op = "query" /\ last.form.limit = <<"abc">> => ~last.ok /\ last.results = <<>>

\* the query of form that sorts the other way or, with direction <<>>,
\* without a direction
Redirected(form, direction) == [form EXCEPT !.order = <<@[1]>> \o direction]

\* C21: for every store and ORDER BY field, the rows of ORDER BY field DESC
\* are the rows of ORDER BY field ASC in reverse, records with equal sort
\* keys included.
C21_DescReversesAsc ==
    (/\ last.op = "query" /\ last.ok
     /\ last.form \in OrderForms
     /\ last.form.order[Len(last.form.order)] = "DESC") =>
        last.results =
            Reverse(execute_query(Render(Redirected(last.form, <<"ASC">>)),
                                  LinkedList_to_list(students)).rows)

\* every value of the field parses as a number
AllParse(list, field) ==
    \A i \in 1..Len(list) : list[i][field] \in {"0", "1", "2", "3", "4"}

\* a is not after b in the order the claim gives the records of list
NotAfter(a, b, list, field) ==
    IF AllParse(list, field)
    THEN int(a[field]) <= int(b[field])
    ELSE ~StrLess(<<upper(b[field])>>, <<upper(a[field])>>)

\* C22: ORDER BY compares the records as numbers only when the value of
\* every record parses as a number; when the value of some record does
\* not, it compares them all as upper-case strings, and the query still
\* returns the records sorted.
C22_MixedKeysSortAsStrings ==
    (last.op = "query" /\ last.form \in OrderForms) =>
        LET list == LinkedList_to_list(students)
            field == last.form.order[1]
            rows == IF last.form.order[Len(last.form.order)] = "DESC"
                    THEN Reverse(last.results) ELSE last.results IN
        /\ last.ok
        /\ Len(rows) = Len(list)
        /\ {rows[i] : i \in 1..Len(rows)} = {list[i] : i \in 1..Len(list)}
        /\ \A i, j \in 1..Len(rows) : i < j => NotAfter(rows[i], rows[j], list, field)

\* the key of the group a record goes to
GroupKey(student, field) ==
    IF field \in DOMAIN student THEN Str(<<student[field]>>) ELSE Str(<<"NULL">>)

\* where the first record with this key stands in a list
FirstSeen(list, key, field) ==
    CHOOSE k \in 1..Len(list) :
        /\ GroupKey(list[k], field) = key
        /\ \A m \in 1..(k - 1) : GroupKey(list[m], field) # key

RECURSIVE SumOfCounts(_)
SumOfCounts(rows) ==
    IF rows = <<>> THEN 0 ELSE Head(rows).count + SumOfCounts(Tail(rows))

ExampleBands ==
    {<<90000, "A">>, <<89999, "B">>, <<80000, "B">>, <<79999, "C">>,
     <<70000, "C">>, <<69999, "D">>, <<60000, "D">>, <<59999, "F">>}

\* the (student, position) pairs of the grades that are counted: those that
\* have a course at the same position
CountedPairs(list) ==
    {<<i, k>> \in (1..Len(list)) \X (1..2) :
        k <= Len(list[i].courses) /\ k <= Len(list[i].grades)}

\* C25: the grade distribution counts every grade that is paired with a
\* course in exactly one band, the lower bounds being inclusive (90 is an A,
\* 89.999 a B, 80 a B, 79.999 a C, 70 a C, 69.999 a D, 60 a D, 59.999 an F),
\* and the five counts add up to the number of pairs counted.
C25_GradeBands ==
    last.op = "reports" =>
        LET list == LinkedList_to_list(students)
            pairs == CountedPairs(list)
            counts == last.grade_distribution IN
        /\ DOMAIN counts = {"A", "B", "C", "D", "F"}
        /\ \A band \in DOMAIN counts :
              counts[band] =
                  Cardinality({p \in pairs :
                                  <<list[p[1]].grades[p[2]], band>> \in ExampleBands})
        /\ counts["A"] + counts["B"] + counts["C"] + counts["D"] + counts["F"]
               = Cardinality(pairs)

\* a record with the grades 90 and 89.999: one A and one B
C25_Witness ==
    /\ last.op = "reports"
    /\ students.size = 1
    /\ students.nodes[1].courses = <<"Math", "Bio">>
    /\ students.nodes[1].grades = <<90000, 89999>>
    /\ last.grade_distribution["A"] = 1
    /\ last.grade_distribution["B"] = 1

\* the query of the example
ExampleQuery ==
    <<"SELECT", "name", "FROM", "students", "WHERE", "avg_grade", ">", "80",
      "ORDER", "BY", "avg_grade", "DESC">>

\* C26: on a store holding S1 (courses Math, Bio; grades 95, 85) and S2
\* (courses Math; grade 70), SELECT name FROM students WHERE avg_grade > 80
\* ORDER BY avg_grade DESC returns exactly one row, which holds the name of
\* S1 and nothing else.
C26_ExampleQuery ==
    (/\ last.op = "query"
     /\ last.query_text = ExampleQuery
     /\ LinkedList_to_list(students) \in {<<S1, S2>>, <<S2, S1>>}) =>
        /\ last.ok
        /\ Len(last.results) = 1
        /\ DOMAIN last.results[1] = {"name"}
        /\ last.results[1]["name"] = Str(<<S1.name>>)

C26_Witness ==
    /\ last.op = "query"
    /\ last.query_text = ExampleQuery
    /\ LinkedList_to_list(students) = <<S1, S2>>
    /\ last.results = <<[name |-> Str(<<"n1">>)]>>

\* C30: a condition on a field the record does not have is false whatever
\* the operator, != included: no record is in the result of field != 1, of
\* field = 1 or of the field with any other operator, and the query does
\* not fail.
C30_MissingFieldIsFalse ==
    (last.op = "query" /\ last.form \in MissingFieldForms) =>
        last.ok /\ last.results = <<>>

\* C28: undoing a delete restores the traversal order as well as the record:
\* after a successful delete_student(r) immediately followed by
\* undo_last_operation the store holds the records in the order it held them
\* before the delete, also when r was not the last record.
C28_DeleteUndoRestoresOrder ==
    [][(/\ last.op = "delete_student"
        /\ last.ret = TRUE
        /\ last'.op = "undo_last_operation")
       => LinkedList_to_list(students') = LinkedList_to_list(before)]_vars

\* C29: in every state reached by LinkedList append, prepend, delete and
\* update calls the size counter equals the number of nodes reachable from
\* head, and is_empty is true exactly when the size is 0.
C29_SizeCountsNodes ==
    /\ LinkedList_get_length(students) = Len(LinkedList_to_list(students))
    /\ LinkedList_is_empty(students) <=> (LinkedList_get_length(students) = 0)

\* a prepend in front of two nodes
C29_Witness ==
    /\ last.op = "prepend"
    /\ Len(before.nodes) = 2
    /\ LinkedList_to_list(students) = <<last.data>> \o before.nodes
    /\ LinkedList_get_length(students) = 3
    /\ ~LinkedList_is_empty(students)

\* the records a list holds, whatever their order
Records(nodes) == {nodes[i] : i \in 1..Len(nodes)}

\* C27: from a store with an empty history, k successful mutations (k at
\* most the capacity of the history) followed by k calls of
\* undo_last_operation: every undo reports success, and when the history is
\* empty again the store holds the same set of records, with the same field
\* values, as at the start.
C27_UndoUnwinds ==
    last.op = "undo_last_operation" =>
        /\ last.ret[1] = TRUE
        /\ Stack_is_empty(operation_history) =>
               Records(LinkedList_to_list(students)) = Records(snapshot)

====
